---------------------------- MODULE Spec2Model ----------------------------
(***************************************************************************)
(* Model of worker/worker_static_ip.py: a ThreadingHTTPServer whose        *)
(* StaticIPHandler answers GET and POST requests after one outbound call   *)
(* to an IP-lookup service (get_public_ip).                                *)
(*                                                                         *)
(* Byte strings and texts are sequences of one-character strings; the      *)
(* unit "xFF" stands for the single byte 0xFF, which is not valid UTF-8.   *)
(* A JSON value is represented by its compact text (a sequence of          *)
(* characters without insignificant whitespace), a Python None by the      *)
(* empty sequence in an "optional string" field (<<>> is None, <<s>> is    *)
(* the string s).                                                          *)
(***************************************************************************)
EXTENDS Integers, Sequences, FiniteSets

\* ------------------------------------------------------------- bounds
MaxClock == 3

\* ------------------------------------------------------- HTTP statuses
OK == 200
BAD_GATEWAY == 502
NOT_FOUND == 404
NOT_IMPLEMENTED == 501

\* ------------------------------------------------- json.loads (line 77)
Q == "\""
WHITESPACE == {" "}
DIGITS == {"1"}
NullLit == <<"n", "u", "l", "l">>

Fail == [ok |-> FALSE, type |-> "none", val |-> <<>>, rest |-> <<>>,
         has |-> FALSE, key |-> <<>>, member |-> <<>>]

Scanned(t, v, r) == [ok |-> TRUE, type |-> t, val |-> v, rest |-> r,
                     has |-> FALSE, key |-> <<>>, member |-> <<>>]

Drop(s, n) == SubSeq(s, n + 1, Len(s))

RECURSIVE SkipWs(_)
SkipWs(s) == IF s # <<>> /\ Head(s) \in WHITESPACE THEN SkipWs(Tail(s)) ELSE s

\* s starts with the opening quote; the string ends at the next quote.
ScanString(s) ==
    LET t == Tail(s)
        idx == {i \in 1..Len(t) : t[i] = Q}
    IN  IF idx = {} THEN Fail
        ELSE LET e == CHOOSE i \in idx : \A j \in idx : i <= j
             IN  Scanned("str", SubSeq(s, 1, e + 1), Drop(t, e))

\* s starts with a digit; the number is the longest run of digits.
ScanNumber(s) ==
    LET stop == {i \in 1..Len(s) : s[i] \notin DIGITS}
        n == IF stop = {} THEN Len(s)
             ELSE (CHOOSE i \in stop : \A j \in stop : i <= j) - 1
    IN  Scanned("num", SubSeq(s, 1, n), Drop(s, n))

RECURSIVE ScanOnce(_)
RECURSIVE JSONObject(_)
RECURSIVE JSONArray(_)

\* s is what follows the opening brace.
JSONObject(s) ==
    LET a == SkipWs(s)
    IN  IF a = <<>> THEN Fail
        ELSE IF Head(a) = "}" THEN Scanned("object", <<"{", "}">>, Tail(a))
        ELSE IF Head(a) # Q THEN Fail
        ELSE LET k == ScanString(a)
             IN  IF ~k.ok THEN Fail
                 ELSE LET b == SkipWs(k.rest)
                      IN  IF b = <<>> \/ Head(b) # ":" THEN Fail
                          ELSE LET v == ScanOnce(SkipWs(Tail(b)))
                               IN  IF ~v.ok THEN Fail
                                   ELSE LET c == SkipWs(v.rest)
                                        IN  IF c = <<>> \/ Head(c) # "}" THEN Fail
                                            ELSE [ok |-> TRUE, type |-> "object",
                                                  val |-> <<"{">> \o k.val \o <<":">> \o v.val \o <<"}">>,
                                                  rest |-> Tail(c), has |-> TRUE,
                                                  key |-> k.val, member |-> v.val]

\* s is what follows the opening bracket.
JSONArray(s) ==
    LET a == SkipWs(s)
    IN  IF a = <<>> THEN Fail
        ELSE IF Head(a) = "]" THEN Scanned("array", <<"[", "]">>, Tail(a))
        ELSE LET v == ScanOnce(a)
             IN  IF ~v.ok THEN Fail
                 ELSE LET c == SkipWs(v.rest)
                      IN  IF c = <<>> \/ Head(c) # "]" THEN Fail
                          ELSE Scanned("array", <<"[">> \o v.val \o <<"]">>, Tail(c))

ScanOnce(s) ==
    IF s = <<>> THEN Fail
    ELSE IF Head(s) = Q THEN ScanString(s)
    ELSE IF Head(s) = "{" THEN JSONObject(Tail(s))
    ELSE IF Head(s) = "[" THEN JSONArray(Tail(s))
    ELSE IF Len(s) >= 4 /\ SubSeq(s, 1, 4) = NullLit THEN Scanned("null", NullLit, Drop(s, 4))
    ELSE IF Head(s) \in DIGITS THEN ScanNumber(s)
    ELSE Fail

\* json.loads(bytes): decode as UTF-8, then decode one value surrounded by
\* optional whitespace; anything left over is "Extra data".
json_loads(b) ==
    IF \E i \in 1..Len(b) : b[i] = "xFF"
    THEN [exc |-> "UnicodeDecodeError", v |-> Fail]
    ELSE LET r == ScanOnce(SkipWs(b))
         IN  IF r.ok /\ SkipWs(r.rest) = <<>>
             THEN [exc |-> "none", v |-> r]
             ELSE [exc |-> "JSONDecodeError", v |-> Fail]

\* ------------------------------------------- Content-Length (line 74)
DigitChars == <<"0", "1", "2", "3", "4", "5", "6", "7", "8", "9">>

IsDigit(ch) == \E i \in 1..Len(DigitChars) : DigitChars[i] = ch

DigitVal(ch) == (CHOOSE i \in 1..Len(DigitChars) : DigitChars[i] = ch) - 1

RECURSIVE DecValue(_)
DecValue(s) ==
    IF s = <<>> THEN 0
    ELSE DecValue(SubSeq(s, 1, Len(s) - 1)) * 10 + DigitVal(s[Len(s)])

\* int(text): the texts here hold digits and letters only (no sign, no
\* blanks, no underscores).
py_int(s) ==
    IF s # <<>> /\ \A i \in 1..Len(s) : IsDigit(s[i])
    THEN [exc |-> "none", n |-> DecValue(s)]
    ELSE [exc |-> "ValueError", n |-> 0]

\* A header is absent, or present with a text.
NoHeader == [present |-> FALSE, value |-> <<>>]

Header(v) == [present |-> TRUE, value |-> v]

\* self.headers.get("Content-Length", "0") or "0"
ContentLengthText(h) ==
    LET got == IF h.present THEN h.value ELSE <<"0">>
    IN  IF got = <<>> THEN <<"0">> ELSE got

\* ------------------------------------------- do_POST, lines 74 to 81
KeyPayload == <<Q, "p", "a", "y", "l", "o", "a", "d", Q>>
EmptyDict == <<"{", "}">>

\* body.get("payload", {}) on a dict with at most one member
dict_get(d, key, default) == IF d.has /\ d.key = key THEN d.member ELSE default

\* raw is <<>> while nothing was read, <<bytes>> once line 75 has run.
Raised(e, raw) == [exc |-> e, raw |-> raw, worker_payload |-> <<>>]

ReadPayload(cl, sent) ==
    LET length == py_int(ContentLengthText(cl))
    IN  IF length.exc # "none" THEN Raised(length.exc, <<>>)
        ELSE LET raw == IF length.n # 0 THEN SubSeq(sent, 1, length.n) ELSE EmptyDict
                 loaded == json_loads(IF raw = <<>> THEN EmptyDict ELSE raw)
             IN  IF loaded.exc \notin {"none", "JSONDecodeError"} THEN Raised(loaded.exc, <<raw>>)
                 ELSE LET body == IF loaded.exc = "JSONDecodeError"
                                  THEN Scanned("object", EmptyDict, <<>>)
                                  ELSE loaded.v
                      IN  IF body.type # "object" THEN Raised("AttributeError", <<raw>>)
                          ELSE [exc |-> "none", raw |-> <<raw>>,
                                worker_payload |-> dict_get(body, KeyPayload, EmptyDict)]

\* ------------------------------------------- get_public_ip (28 to 31)
TextWhitespace == {" ", "\n"}

RECURSIVE lstrip(_)
lstrip(s) == IF s # <<>> /\ Head(s) \in TextWhitespace THEN lstrip(Tail(s)) ELSE s

RECURSIVE rstrip(_)
rstrip(s) ==
    IF s # <<>> /\ s[Len(s)] \in TextWhitespace
    THEN rstrip(SubSeq(s, 1, Len(s) - 1)) ELSE s

strip(s) == rstrip(lstrip(s))

\* A raise_for_status that reports server errors only.
raise_for_status_5xx(status_code) ==
    IF 500 <= status_code /\ status_code < 600 THEN "HTTPError" ELSE "none"

\* resp.raise_for_status(): an HTTPError for a 4xx or 5xx status only.
raise_for_status(status_code) ==
    IF 400 <= status_code /\ status_code < 600 THEN "HTTPError" ELSE "none"

\* o is what requests.get did: it raised (a timeout, a connection error)
\* or it returned the final response.
get_public_ip(o) ==
    IF o.kind # "response" THEN [exc |-> o.kind, value |-> <<>>]
    ELSE IF raise_for_status(o.status_code) # "none"
         THEN [exc |-> raise_for_status(o.status_code), value |-> <<>>]
         ELSE [exc |-> "none", value |-> strip(o.text)]

\* ------------------------------------------------------- responses
NoResponse == [code |-> 0, json |-> FALSE, fields |-> {}, status |-> "",
               error |-> <<>>, echo |-> <<>>, public_ip |-> <<>>, timestamp |-> 0]

\* send_error: a status line and an HTML message, no JSON
send_error(code) == [NoResponse EXCEPT !.code = code]

json_response(status, payload) == [payload EXCEPT !.code = status, !.json = TRUE]

ErrorText(exc) == <<"ip_check_failed: ", exc>>

\* A do_GET that loses the except branch: it answers 200 "ok" whatever
\* the lookup did.
GetResponseAlwaysOk(r, now) ==
    json_response(OK,
        [NoResponse EXCEPT !.fields = {"status", "public_ip", "timestamp"},
                           !.status = "ok", !.public_ip = <<r.value>>,
                           !.timestamp = now])

\* do_GET after the lookup (lines 55 to 67); r is what get_public_ip did.
GetResponse(r, now) ==
    IF r.exc # "none"
    THEN json_response(BAD_GATEWAY,
            [NoResponse EXCEPT !.fields = {"status", "error", "timestamp"},
                               !.status = "error", !.error = ErrorText(r.exc),
                               !.timestamp = now])
    ELSE json_response(OK,
            [NoResponse EXCEPT !.fields = {"status", "public_ip", "timestamp"},
                               !.status = "ok", !.public_ip = <<r.value>>,
                               !.timestamp = now])

\* A do_POST whose except branch forgets to set status.
PostResponseStaleStatus(worker_payload, r, now) ==
    json_response(OK,
        [NoResponse EXCEPT
            !.fields = {"status", "error", "echo", "public_ip", "timestamp"},
            !.status = "ok",
            !.error = IF r.exc = "none" THEN <<>> ELSE ErrorText(r.exc),
            !.echo = worker_payload,
            !.public_ip = IF r.exc = "none" THEN <<r.value>> ELSE <<>>,
            !.timestamp = now])

\* do_POST after the lookup (lines 82 to 98)
PostResponse(worker_payload, r, now) ==
    LET ip == IF r.exc = "none" THEN <<r.value>> ELSE <<>>
        status == IF r.exc = "none" THEN "ok" ELSE "error"
        error == IF r.exc = "none" THEN <<>> ELSE ErrorText(r.exc)
    IN  json_response(OK,
            [NoResponse EXCEPT
                !.fields = {"status", "error", "echo", "public_ip", "timestamp"},
                !.status = status, !.error = error, !.echo = worker_payload,
                !.public_ip = ip, !.timestamp = now])

\* ------------------------------------------------------- routing
\* A do_GET that also accepts the POST route.
GET_PATHS_Wide == {"/", "/healthz", "/ip", "/invoke"}

GET_PATHS == {"/", "/healthz", "/ip"}
POST_PATHS == {"/invoke", "/"}

\* BaseHTTPRequestHandler calls do_<command>; StaticIPHandler has two.
HANDLED == {"GET", "POST"}

\* ------------------------------------------------------- inputs
Conns == {1, 2}
Methods == {"GET", "POST", "PUT"}
Paths == {"/", "/healthz", "/ip", "/invoke", "/foo"}

Str(chars) == <<Q>> \o chars \o <<Q>>
Obj(k, v) == <<"{">> \o k \o <<":">> \o v \o <<"}">>

B_None == <<>>
B_EmptyObj == EmptyDict
B_Payload == Obj(KeyPayload, Obj(Str(<<"a">>), <<"1">>))
B_PayloadNull == Obj(KeyPayload, NullLit)
B_PayloadSpaced == <<" ">> \o Obj(KeyPayload, <<" ", "[", "1", "]", " ">>) \o <<" ">>
B_Other == Obj(Str(<<"a">>), <<"1">>)
B_Array == <<"[", "1", "]">>
B_Null == NullLit
B_String == KeyPayload
B_Number == <<"1", "1">>
B_Cut == <<"{">> \o KeyPayload
B_BadByte == <<"xFF">>

Bodies == {B_None, B_EmptyObj, B_Payload, B_PayloadNull, B_PayloadSpaced, B_Other,
           B_Array, B_Null, B_String, B_Number, B_Cut, B_BadByte}

RECURSIVE Dec(_)
Dec(n) == IF n < 10 THEN <<DigitChars[n + 1]>>
          ELSE Dec(n \div 10) \o <<DigitChars[(n % 10) + 1]>>

\* The Content-Length headers a client sends with a body: the body's
\* length, none, an empty one, zero, one that is no number and, for one
\* body, a length that cuts the body short.  A client that announces more
\* bytes than it sends keeps rfile.read waiting and is not modelled.
ContentLengths(sent) ==
    {Header(Dec(Len(sent))), NoHeader, Header(<<>>), Header(<<"0">>), Header(<<"a">>)}
    \cup (IF sent = B_Payload THEN {Header(Dec(Len(sent) - 1))} ELSE {})

Request(m, p, cl, sent) == [method |-> m, path |-> p, cl |-> cl, body |-> sent]

NoRequest == Request("", "", NoHeader, <<>>)

Requests ==
    {Request(m, p, NoHeader, <<>>) : m \in Methods \ {"POST"}, p \in Paths}
    \cup UNION {{Request("POST", p, cl, b) : p \in Paths, cl \in ContentLengths(b)}
                : b \in Bodies}

ConcRequests ==
    {Request("GET", "/ip", NoHeader, <<>>), Request("GET", "/foo", NoHeader, <<>>),
     Request("POST", "/invoke", Header(Dec(Len(B_Payload))), B_Payload),
     Request("POST", "/invoke", Header(Dec(Len(B_PayloadNull))), B_PayloadNull),
     Request("POST", "/", Header(Dec(Len(B_Array))), B_Array)}

Outcome(k, s, t) == [kind |-> k, status_code |-> s, text |-> t]

NoOutcome == Outcome("none", 0, <<>>)

StatusCodes == {101, 200, 204, 304, 404, 503}
Texts == {<<"7">>, <<" ", "7", " ", "8", "\n">>, <<"\n">>}

Outcomes ==
    {Outcome("Timeout", 0, <<>>), Outcome("ConnectionError", 0, <<>>)}
    \cup {Outcome("response", s, t) : s \in StatusCodes, t \in Texts}

ConcOutcomes ==
    {Outcome("Timeout", 0, <<>>), Outcome("response", 200, <<"7">>),
     Outcome("response", 200, <<"8", "\n">>), Outcome("response", 503, <<"7">>)}

NotCalled == [exc |-> "none", value |-> <<>>]

\* ------------------------------------------------------- state
VARIABLES
    pc,              \* per connection: "idle", "lookup", "done", "crashed"
    req,             \* per connection: the request its handler thread serves
    raw,             \* per handler: the local of line 75, once read
    worker_payload,  \* per handler: the local of line 81
    lookup,          \* per handler: what requests.get did for it
    ip,              \* per handler: what get_public_ip did (lines 56, 83)
    resp,            \* per connection: the response written to it
    unhandled,       \* per handler: the exception that ended it, or "none"
    calls,           \* per handler: outbound lookups issued for its request
    clock,           \* the system clock read by time.time()
    prevTs, lastTs,  \* timestamps of the two latest JSON responses built
    setBack,         \* the clock was set back since the latest one
    setBackPrev      \* the clock was set back between those two

vars == <<pc, req, raw, worker_payload, lookup, ip, resp, unhandled, calls,
          clock, prevTs, lastTs, setBack, setBackPrev>>

conn == <<pc, req, raw, worker_payload, lookup, ip, resp, unhandled, calls>>
stamps == <<prevTs, lastTs, setBack, setBackPrev>>

\* A timestamp that counts the time left instead of the time elapsed.
time_time_remaining == MaxClock - clock

time_time == clock

\* A plain HTTPServer: one request at a time, the next connection waits
\* until the running handler has returned.
CanAcceptSerial(c) == pc[c] = "idle" /\ \A d \in Conns : pc[d] # "lookup"

\* ThreadingHTTPServer starts a thread for each connection it accepts, so
\* accepting one never waits for a handler that is still running.
CanAccept(c) == pc[c] = "idle"

Init ==
    /\ pc = [c \in Conns |-> "idle"]
    /\ req = [c \in Conns |-> NoRequest]
    /\ raw = [c \in Conns |-> <<>>]
    /\ worker_payload = [c \in Conns |-> <<>>]
    /\ lookup = [c \in Conns |-> NoOutcome]
    /\ ip = [c \in Conns |-> NotCalled]
    /\ resp = [c \in Conns |-> NoResponse]
    /\ unhandled = [c \in Conns |-> "none"]
    /\ calls = [c \in Conns |-> 0]
    /\ clock = 1
    /\ prevTs = 0
    /\ lastTs = 0
    /\ setBack = FALSE
    /\ setBackPrev = FALSE

\* The handler answers without a lookup: an unsupported method, or a path
\* its method does not accept (lines 51 to 53, 70 to 72).
Refuse(c, r, code) ==
    /\ pc' = [pc EXCEPT ![c] = "done"]
    /\ req' = [req EXCEPT ![c] = r]
    /\ resp' = [resp EXCEPT ![c] = send_error(code)]
    /\ UNCHANGED <<raw, worker_payload, lookup, ip, unhandled, calls>>

\* An exception leaves do_POST: the thread ends and the connection is
\* closed with nothing written to it.
Crash(c, r, e, read) ==
    /\ pc' = [pc EXCEPT ![c] = "crashed"]
    /\ req' = [req EXCEPT ![c] = r]
    /\ raw' = [raw EXCEPT ![c] = read]
    /\ unhandled' = [unhandled EXCEPT ![c] = e]
    /\ UNCHANGED <<worker_payload, lookup, ip, resp, calls>>

\* The handler calls get_public_ip and blocks in requests.get.
CallLookup(c, r, read, payload) ==
    /\ pc' = [pc EXCEPT ![c] = "lookup"]
    /\ req' = [req EXCEPT ![c] = r]
    /\ raw' = [raw EXCEPT ![c] = read]
    /\ worker_payload' = [worker_payload EXCEPT ![c] = payload]
    /\ calls' = [calls EXCEPT ![c] = calls[c] + 1]
    /\ UNCHANGED <<lookup, ip, resp, unhandled>>

\* A request arrives on connection c; its handler runs up to the lookup.
Handle(c, r) ==
    /\ CanAccept(c)
    /\ IF r.method \notin HANDLED THEN Refuse(c, r, NOT_IMPLEMENTED)
       ELSE IF r.method = "GET"
       THEN IF r.path \notin GET_PATHS THEN Refuse(c, r, NOT_FOUND)
            ELSE CallLookup(c, r, <<>>, <<>>)
       ELSE IF r.path \notin POST_PATHS THEN Refuse(c, r, NOT_FOUND)
            ELSE LET p == ReadPayload(r.cl, r.body)
                 IN  IF p.exc # "none" THEN Crash(c, r, p.exc, p.raw)
                     ELSE CallLookup(c, r, p.raw, p.worker_payload)
    /\ UNCHANGED <<clock, stamps>>

\* requests.get ends with outcome o; the handler builds and sends its
\* response (lines 55 to 67, 82 to 98).
Respond(c, o) ==
    /\ pc[c] = "lookup"
    /\ LET r == get_public_ip(o)
           out == IF req[c].method = "GET" THEN GetResponse(r, time_time)
                  ELSE PostResponse(worker_payload[c], r, time_time)
       IN  /\ lookup' = [lookup EXCEPT ![c] = o]
           /\ ip' = [ip EXCEPT ![c] = r]
           /\ resp' = [resp EXCEPT ![c] = out]
           /\ prevTs' = lastTs
           /\ lastTs' = out.timestamp
    /\ setBackPrev' = setBack
    /\ setBack' = FALSE
    /\ pc' = [pc EXCEPT ![c] = "done"]
    /\ UNCHANGED <<req, raw, worker_payload, unhandled, calls, clock>>

\* The connection ends; the next request comes on a fresh one.
Close(c) ==
    /\ pc[c] \in {"done", "crashed"}
    /\ pc' = [pc EXCEPT ![c] = "idle"]
    /\ req' = [req EXCEPT ![c] = NoRequest]
    /\ raw' = [raw EXCEPT ![c] = <<>>]
    /\ worker_payload' = [worker_payload EXCEPT ![c] = <<>>]
    /\ lookup' = [lookup EXCEPT ![c] = NoOutcome]
    /\ ip' = [ip EXCEPT ![c] = NotCalled]
    /\ resp' = [resp EXCEPT ![c] = NoResponse]
    /\ unhandled' = [unhandled EXCEPT ![c] = "none"]
    /\ calls' = [calls EXCEPT ![c] = 0]
    /\ UNCHANGED <<clock, stamps>>

\* Time passes.
Tick ==
    /\ clock < MaxClock
    /\ clock' = clock + 1
    /\ UNCHANGED <<conn, stamps>>

\* The system clock is set back (an administrator, a time-sync step);
\* time.time() follows it.
ClockSetBack ==
    /\ \E t \in 1..(clock - 1) : clock' = t
    /\ setBack' = TRUE
    /\ UNCHANGED <<conn, prevTs, lastTs, setBackPrev>>

Receive == \E r \in Requests : Handle(1, r)
LookupEnds == \E o \in Outcomes : Respond(1, o)
Closed == Close(1)

\* One connection at a time: requests handled one after another.
Next == Receive \/ LookupEnds \/ Closed \/ Tick \/ ClockSetBack

Spec == Init /\ [][Next]_vars

ConcReceive == \E c \in Conns : \E r \in ConcRequests : Handle(c, r)
ConcLookupEnds == \E c \in Conns : \E o \in ConcOutcomes : Respond(c, o)
ConcClosed == \E c \in Conns : Close(c)

\* Two connections served by two handler threads, interleaved.
ConcNext == ConcReceive \/ ConcLookupEnds \/ ConcClosed \/ Tick

ConcSpec == Init /\ [][ConcNext]_vars

\* ======================================================= the claims
Finished(c) == pc[c] \in {"done", "crashed"}

JsonFields == {"status", "error", "echo", "public_ip", "timestamp"}

\* The accepted paths, as the HTTP surface states them.
AcceptedPath(m, p) ==
    \/ m = "GET" /\ p \in {"/", "/healthz", "/ip"}
    \/ m = "POST" /\ p \in {"/", "/invoke"}

LookupSucceeded(c) == ip[c].exc = "none"

IsLookupError(e) == Len(e) = 2 /\ e[1] = "ip_check_failed: "

\* C1: every POST to an accepted path is answered with HTTP 200 and a JSON
\* object with the fields status, error, echo, public_ip and timestamp,
\* whatever the body and the Content-Length header are; the handler never
\* ends without sending that response.
C1_PostAlwaysAnswered ==
    \A c \in Conns :
        (Finished(c) /\ req[c].method = "POST" /\ AcceptedPath("POST", req[c].path))
        => /\ pc[c] = "done"
           /\ resp[c].code = 200
           /\ resp[c].json
           /\ resp[c].fields = JsonFields

\* C2: a GET to an accepted path answers 200 with status "ok" and the
\* resolved IP when its lookup succeeded, and 502 with status "error" and
\* an error string beginning with "ip_check_failed: " when it failed; no
\* other status code is produced on these paths.
C2_GetReflectsLookup ==
    \A c \in Conns :
        (Finished(c) /\ req[c].method = "GET" /\ AcceptedPath("GET", req[c].path))
        => /\ pc[c] = "done"
           /\ resp[c].json
           /\ resp[c].code \in {200, 502}
           /\ LookupSucceeded(c)
              => /\ resp[c].code = 200
                 /\ resp[c].status = "ok"
                 /\ resp[c].public_ip = <<ip[c].value>>
           /\ ~LookupSucceeded(c)
              => /\ resp[c].code = 502
                 /\ resp[c].status = "error"
                 /\ resp[c].error # <<>>
                 /\ IsLookupError(resp[c].error)

C2_Witness ==
    /\ pc[1] = "done" /\ req[1].method = "GET" /\ req[1].path = "/healthz"
    /\ lookup[1].kind = "Timeout" /\ resp[1].code = 502

\* C3, as stated: a request whose path is not an accepted path of its
\* method is answered 404, whatever the method (also one that is neither
\* GET nor POST), and the 404 response is not JSON.
C3_RejectedPathIs404 ==
    \A c \in Conns :
        (Finished(c) /\ ~AcceptedPath(req[c].method, req[c].path))
        => resp[c].code = 404 /\ ~resp[c].json

\* C3, amended: a GET or POST whose path is not an accepted path of its
\* method is answered 404 without JSON and without a lookup, whatever its
\* body; a request with any other method is answered 501 on every path.
C3_RejectedPathGetPost ==
    \A c \in Conns :
        (Finished(c) /\ ~AcceptedPath(req[c].method, req[c].path))
        => /\ pc[c] = "done"
           /\ ~resp[c].json
           /\ calls[c] = 0
           /\ resp[c].code = IF req[c].method \in {"GET", "POST"} THEN 404 ELSE 501

C3_Witness ==
    /\ pc[1] = "done" /\ req[1].method = "POST" /\ req[1].path = "/healthz"
    /\ req[1].body # <<>> /\ resp[1].code = 404

\* C4: a POST to an accepted path whose body cannot be parsed as JSON
\* (bytes that are no valid text included) is answered 200 with echo {},
\* and the error field depends on the lookup alone.
C4_UnparsableBodyIsEmpty ==
    \A c \in Conns :
        (/\ Finished(c) /\ req[c].method = "POST" /\ AcceptedPath("POST", req[c].path)
         /\ raw[c] # <<>> /\ json_loads(raw[c][1]).exc # "none")
        => /\ pc[c] = "done"
           /\ resp[c].code = 200
           /\ resp[c].echo = <<"{", "}">>
           /\ (resp[c].error = <<>>) <=> LookupSucceeded(c)

\* The payload a POST is to echo: the 'payload' member of the JSON body the
\* Content-Length header delimits, {} without such a member, without a
\* body, or with an absent or zero Content-Length.
DeclaredBody(r) ==
    LET n == py_int(ContentLengthText(r.cl))
    IN  IF n.exc = "none" THEN SubSeq(r.body, 1, n.n) ELSE r.body

ExpectedEcho(r) ==
    LET j == json_loads(DeclaredBody(r))
    IN  IF j.exc = "none" /\ j.v.has /\ j.v.key = KeyPayload
        THEN j.v.member ELSE <<"{", "}">>

\* C5: the echo of a POST to an accepted path is the 'payload' field of
\* the request's JSON body, and {} when the body has no such field, when
\* there is no body or when Content-Length is absent or zero.
C5_EchoIsPayload ==
    \A c \in Conns :
        (Finished(c) /\ req[c].method = "POST" /\ AcceptedPath("POST", req[c].path))
        => pc[c] = "done" /\ resp[c].echo = ExpectedEcho(req[c])

\* C6: in every JSON response to a POST, status is "ok" exactly when the
\* lookup succeeded, and then error is null and public_ip the resolved IP;
\* status is "error" exactly when it failed, and then error begins with
\* "ip_check_failed: " and public_ip is null.
C6_PostOutcomeConsistent ==
    \A c \in Conns :
        (pc[c] = "done" /\ req[c].method = "POST" /\ resp[c].json)
        => /\ resp[c].status \in {"ok", "error"}
           /\ (resp[c].status = "ok") <=> LookupSucceeded(c)
           /\ resp[c].status = "ok"
              => resp[c].error = <<>> /\ resp[c].public_ip = <<ip[c].value>>
           /\ resp[c].status = "error"
              => IsLookupError(resp[c].error) /\ resp[c].public_ip = <<>>

C6_Witness ==
    /\ pc[1] = "done" /\ req[1].method = "POST" /\ req[1].path = "/invoke"
    /\ lookup[1].kind = "ConnectionError" /\ resp[1].status = "error"

\* v is s without its leading and trailing whitespace.
IsStripped(s, v) ==
    /\ v # <<>> => v[1] \notin TextWhitespace /\ v[Len(v)] \notin TextWhitespace
    /\ \E i \in 0..Len(s) :
          /\ i + Len(v) <= Len(s)
          /\ SubSeq(s, i + 1, i + Len(v)) = v
          /\ \A k \in 1..Len(s) :
                (k <= i \/ k > i + Len(v)) => s[k] \in TextWhitespace

Called(c) == pc[c] = "done" /\ calls[c] = 1

C8_TimestampsNonDecreasing == prevTs <= lastTs

\* C8, amended: every JSON response carries the system clock's reading at
\* its construction, so a response built later never carries a smaller
\* timestamp than one built earlier unless the clock was set back between
\* the two.
C8_NonDecreasingUnlessSetBack ==
    /\ ~setBackPrev => prevTs <= lastTs
    /\ \A c \in Conns : (pc[c] = "done" /\ resp[c].json) => resp[c].timestamp = lastTs
    /\ ~setBack => lastTs <= clock

C8_Witness ==
    /\ pc[1] = "done" /\ resp[1].json /\ ~setBackPrev
    /\ prevTs >= 1 /\ lastTs > prevTs

\* C9: exactly one lookup is issued for a request to an accepted path and
\* none for a rejected one; the response to an accepted request is sent
\* only after that lookup has ended, and after the body was read.
C9_ExactlyOneLookup ==
    \A c \in Conns :
        /\ Finished(c)
           => calls[c] = IF AcceptedPath(req[c].method, req[c].path) THEN 1 ELSE 0
        /\ calls[c] <= 1
        /\ (resp[c].json /\ resp[c].code # 0) => lookup[c] # NoOutcome

Untimed(r) == [r EXCEPT !.timestamp = 0]

\* C10: requests served concurrently are independent: the response of each
\* is fixed by its own request and its own lookup (two connections with the
\* same request and lookup outcome get the same answer, whatever the other
\* did in between, and a response carries its own payload and IP), and a
\* handler blocked in its lookup keeps no other connection from being
\* accepted and answered.
C10_RequestsIndependent ==
    /\ \A c, d \in Conns :
          (pc[c] = "done" /\ pc[d] = "done" /\ req[c] = req[d] /\ lookup[c] = lookup[d])
          => Untimed(resp[c]) = Untimed(resp[d])
    /\ \A c \in Conns :
          (pc[c] = "done" /\ resp[c].json)
          => /\ resp[c].public_ip \in {<<>>, <<ip[c].value>>}
             /\ (resp[c].public_ip = <<>>) <=> ~LookupSucceeded(c)
             /\ req[c].method = "POST" => resp[c].echo = ExpectedEcho(req[c])
    /\ \A c, d \in Conns :
          (c # d /\ pc[c] = "lookup")
          => /\ pc[d] = "idle" => ENABLED (\E r \in ConcRequests : Handle(d, r))
             /\ pc[d] = "lookup" => ENABLED (\E o \in ConcOutcomes : Respond(d, o))

C10_Witness ==
    /\ pc[1] = "lookup" /\ req[1].method = "POST"
    /\ pc[2] = "done" /\ req[2].method = "POST" /\ resp[2].json
    /\ worker_payload[1] # worker_payload[2]
    /\ resp[2].status = "error"
=============================================================================
